---- MODULE Spec2Model ----
(***************************************************************************)
(* GovCloudFSXInventory (list_govcloud_fsx.py): one run of the inventory   *)
(* pipeline connect -> list_accounts -> scan_accounts -> export_to_csv.    *)
(* Python strings the code inspects (names, emails) are sequences of       *)
(* one-character strings; dicts are functions whose domain is their keys.  *)
(* Every AWS API response is an input chosen by the environment.           *)
(***************************************************************************)
EXTENDS Integers, Sequences, FiniteSets, TLC

\* ------------------------------------------------------------------ bounds
\* accounts the organization returns over all pages of one listing
MaxListed == 2
\* pages of one organizations.list_accounts pagination
MaxOrgPages == 2
\* accounts per page of the organization listing
MaxOrgPageSize == 2
\* API calls that fail (raise) in one run
MaxFaults == 2
\* file systems per page of fsx.describe_file_systems
FsxPageSize == 1

\* ----------------------------------------------------------------- helpers
\* dict.get(key) without a default when the key is absent
None == "None"

\* dict.get(key, default)
Get(d, key, default) == IF key \in DOMAIN d THEN d[key] ELSE default

UpperAlphabet ==
  <<"A","B","C","D","E","F","G","H","I","J","K","L","M",
    "N","O","P","Q","R","S","T","U","V","W","X","Y","Z">>
LowerAlphabet ==
  <<"a","b","c","d","e","f","g","h","i","j","k","l","m",
    "n","o","p","q","r","s","t","u","v","w","x","y","z">>

\* a lower() that leaves every character as it is
lower_identity(s) == s
\* str.lower()
lower(s) ==
  [k \in 1..Len(s) |->
     IF \E u \in 1..26 : UpperAlphabet[u] = s[k]
       THEN LowerAlphabet[CHOOSE u \in 1..26 : UpperAlphabet[u] = s[k]]
       ELSE s[k]]

\* `sub in s` for Python strings
StrIn(sub, s) ==
  \E off \in 0..(Len(s) - Len(sub)) :
     \A k \in 1..Len(sub) : s[off + k] = sub[k]

\* the literal 'govcloud'
govcloud == <<"g","o","v","c","l","o","u","d">>
\* the literal ''
EmptyStr == <<>>

Min(a, b) == IF a < b THEN a ELSE b

\* ------------------------------------------------------------ fixed data
\* self.govcloud_regions
govcloud_regions == <<"us-gov-west-1", "us-gov-east-1">>

\* a fieldnames list with two columns exchanged
fieldnames_swapped ==
  <<"GovCloud Account ID", "Organization Name", "FSX ID",
    "FSX Type", "Region", "Lifecycle">>
\* fieldnames of the csv.DictWriter
fieldnames ==
  <<"Organization Name", "GovCloud Account ID", "FSX ID",
    "FSX Type", "Region", "Lifecycle">>

Account(id, name, email, status) ==
  [id |-> id, name |-> name, email |-> email, status |-> status]

\* mock_accounts of list_accounts (dry-run)
mock_accounts ==
  << Account("987654321098",
       <<"P","r","o","d","u","c","t","i","o","n","-","G","o","v","C","l","o","u","d">>,
       <<"g","o","v","c","l","o","u","d","-","p","r","o","d","@","e","x","a","m","p","l","e",".","c","o","m">>,
       "ACTIVE"),
     Account("876543210987",
       <<"D","e","v","e","l","o","p","m","e","n","t","-","G","o","v","C","l","o","u","d">>,
       <<"g","o","v","c","l","o","u","d","-","d","e","v","@","e","x","a","m","p","l","e",".","c","o","m">>,
       "ACTIVE"),
     Account("765432109876",
       <<"T","e","s","t","-","G","o","v","C","l","o","u","d">>,
       <<"g","o","v","c","l","o","u","d","-","t","e","s","t","@","e","x","a","m","p","l","e",".","c","o","m">>,
       "ACTIVE") >>

FsxSystem(id, type, region, created, lifecycle) ==
  [filesystem_id |-> id, filesystem_type |-> type, region |-> region,
   creation_time |-> created, lifecycle |-> lifecycle]

\* mock_fsx of list_fsx_systems (dry-run)
mock_fsx ==
  << FsxSystem("fs-0123456789abcdef0", "LUSTRE", "us-gov-west-1",
               "2024-01-15", "AVAILABLE"),
     FsxSystem("fs-abcdef0123456789", "WINDOWS", "us-gov-west-1",
               "2024-02-20", "AVAILABLE") >>

\* ------------------------------------------------- the AWS side (inputs)
\* The account whose credentials the operator's own session carries.
CallerAccount == "111"

\* Entries of page['Accounts'] the organization may return.  Keys may be
\* absent, as account.get(...) allows.
OrgAccounts ==
  { \* active, marker in the name (mixed case)
    [Id |-> "111",
     Name |-> <<"P","r","o","d","-","G","o","v","C","l","o","u","d">>,
     Email |-> <<"p","r","o","d","@","e","x","a","m","p","l","e",".","c","o","m">>,
     Status |-> "ACTIVE"],
    \* suspended, marker in the email only (upper case)
    [Id |-> "222",
     Name |-> <<"d","e","v">>,
     Email |-> <<"G","O","V","C","L","O","U","D","-","d","e","v","@","e","x","a","m","p","l","e",".","c","o","m">>,
     Status |-> "SUSPENDED"],
    \* suspended, a near miss of the marker
    [Id |-> "333",
     Name |-> <<"g","o","v","c","l","o","u","-","d">>,
     Email |-> <<"o","l","d","@","e","x","a","m","p","l","e",".","c","o","m">>,
     Status |-> "SUSPENDED"],
    \* no Status key, marker inside the name
    [Id |-> "444",
     Name |-> <<"x","G","o","V","c","L","o","U","d","y">>,
     Email |-> <<"o","p","s","@","e","x","a","m","p","l","e",".","c","o","m">>],
    \* active, neither Name nor Email key
    [Id |-> "555", Status |-> "ACTIVE"] }

\* Orderings of k distinct organization accounts.
PagesOf(unlisted, k) ==
  { p \in [1..k -> unlisted] : \A a, b \in 1..k : a # b => p[a] # p[b] }

\* How many file systems the account `owner` has in region number r.
FsCount(owner, r) ==
  CASE owner = "111" -> (IF r = 1 THEN 2 ELSE 1)
    [] owner = "222" -> (IF r = 1 THEN 0 ELSE 2)
    [] owner = "444" -> (IF r = 1 THEN 1 ELSE 0)
    [] OTHER -> 0

\* The n-th entry of FileSystems that fsx.describe_file_systems returns for
\* the account `owner` in region number r.  Lifecycle may be absent.
FileSystem(owner, r, n) ==
  IF n = 2 /\ r = 2
    THEN [FileSystemId |-> <<"fs", owner, r, n>>,
          FileSystemType |-> "WINDOWS",
          CreationTime |-> "2024"]
    ELSE [FileSystemId |-> <<"fs", owner, r, n>>,
          FileSystemType |-> (IF n = 1 THEN "LUSTRE" ELSE "WINDOWS"),
          CreationTime |-> "2024",
          Lifecycle |-> (IF r = 1 THEN "AVAILABLE" ELSE "CREATING")]

\* Error codes of a botocore ClientError.
OrgErrorCodes == {"AccessDeniedException", "TooManyRequestsException"}
StsErrorCodes == {"AccessDenied"}
FsxErrorCodes == {"AccessDenied", "UnauthorizedOperation", "InternalServerError"}

\* self.session = None
NoSession == [kind |-> "none", account |-> "none"]
\* the 'mock_session' indicator of assume_role (dry-run)
MockSession == [kind |-> "mock_session", account |-> "none"]
\* the process has not exited
Running == -1

\* ------------------------------------------------------------------- state
VARIABLES
  dry_run,          \* self.dry_run
  pc,               \* where run() stands
  session,          \* self.session
  accounts,         \* run(): what list_accounts returned
  acc,              \* list_accounts(): the local list `accounts`
  orgPageNo,        \* list_accounts(): pages the paginator has yielded
  listed,           \* every page['Accounts'] entry yielded so far, in order
  i,                \* scan_accounts(): position of `account` in accounts
  assumed_session,  \* scan_accounts(): the session passed to list_fsx_systems
  region,           \* list_fsx_systems(): position of `region` in the list
  fetched,          \* file systems the current region's paginator has yielded
  fsx_systems,      \* list_fsx_systems(): the local list
  results,          \* scan_accounts(): the local list `results`
  csvfile,          \* the files export_to_csv has written
  preview,          \* the previews export_to_csv has printed (dry-run)
  notices,          \* the warnings export_to_csv has printed
  exit_status,      \* process exit status, Running until the process ends
  faults,           \* API calls that have raised
  calls,            \* API operations called so far
  queried,          \* <<account position, region number, session>> queried
  observed,         \* <<account position, region number, FileSystems entry>>
  regionErrors,     \* <<account position, region number, code, logged>>
  assumeFailed,     \* account positions whose assume_role returned None
  authFailed,       \* connect() returned False
  listFailed        \* list_accounts() caught a ClientError

vars ==
  <<dry_run, pc, session, accounts, acc, orgPageNo, listed, i,
    assumed_session, region, fetched, fsx_systems, results, csvfile, preview,
    notices, exit_status, faults, calls, queried, observed, regionErrors,
    assumeFailed, authFailed, listFailed>>

\* __init__, and main() choosing --dry-run or not
Init ==
  /\ dry_run \in BOOLEAN
  /\ pc = "connect"
  /\ session = NoSession
  /\ accounts = <<>>
  /\ acc = <<>>
  /\ orgPageNo = 0
  /\ listed = <<>>
  /\ i = 0
  /\ assumed_session = NoSession
  /\ region = 0
  /\ fetched = 0
  /\ fsx_systems = <<>>
  /\ results = <<>>
  /\ csvfile = {}
  /\ preview = <<>>
  /\ notices = {}
  /\ exit_status = Running
  /\ faults = 0
  /\ calls = {}
  /\ queried = {}
  /\ observed = {}
  /\ regionErrors = {}
  /\ assumeFailed = {}
  /\ authFailed = FALSE
  /\ listFailed = FALSE

\* ---------------------------------------------------------------- connect
\* the operator's own boto3.Session
OwnSession == [kind |-> "own", account |-> CallerAccount]

ConnectDryRun ==
  /\ pc = "connect"
  /\ dry_run
  /\ pc' = "list_accounts"
  /\ UNCHANGED <<dry_run, session, accounts, acc, orgPageNo, listed, i,
                 assumed_session, region, fetched, fsx_systems, results,
                 csvfile, preview, exit_status, faults, calls, queried,
                 observed, regionErrors, assumeFailed, authFailed, listFailed,
                 notices>>

ConnectOk ==
  /\ pc = "connect"
  /\ ~dry_run
  /\ session' = OwnSession
  /\ calls' = calls \cup {"sts:GetCallerIdentity"}
  /\ pc' = "list_accounts"
  /\ UNCHANGED <<dry_run, accounts, acc, orgPageNo, listed, i,
                 assumed_session, region, fetched, fsx_systems, results,
                 csvfile, preview, exit_status, faults, queried,
                 observed, regionErrors, assumeFailed, authFailed, listFailed,
                 notices>>

\* connect() returns False and run() goes on to list the accounts
ConnectFail_ignored ==
  /\ pc = "connect"
  /\ ~dry_run
  /\ faults < MaxFaults
  /\ \E e \in {"NoCredentialsError", "ClientError"} :
       /\ session' = OwnSession
       /\ calls' = calls \cup {"sts:GetCallerIdentity"}
       /\ faults' = faults + 1
       /\ authFailed' = TRUE
       /\ pc' = "list_accounts"
  /\ UNCHANGED <<dry_run, accounts, acc, orgPageNo, listed, i,
                 assumed_session, region, fetched, fsx_systems, results,
                 csvfile, preview, exit_status, queried, observed,
                 regionErrors, assumeFailed, listFailed,
                 notices>>

\* get_caller_identity raises; connect() returns False; run() exits 1
ConnectFail ==
  /\ pc = "connect"
  /\ ~dry_run
  /\ faults < MaxFaults
  /\ \E e \in {"NoCredentialsError", "ClientError"} :
       /\ session' = OwnSession
       /\ calls' = calls \cup {"sts:GetCallerIdentity"}
       /\ faults' = faults + 1
       /\ authFailed' = TRUE
       /\ exit_status' = 1
       /\ pc' = "done"
  /\ UNCHANGED <<dry_run, accounts, acc, orgPageNo, listed, i,
                 assumed_session, region, fetched, fsx_systems, results,
                 csvfile, preview, queried, observed,
                 regionErrors, assumeFailed, listFailed,
                 notices>>

\* ---------------------------------------------------------- list_accounts
\* the filter of list_accounts, with lower() left out
KeepAccount_case_sensitive(account) ==
  \/ StrIn(govcloud, lower_identity(Get(account, "Name", EmptyStr)))
  \/ StrIn(govcloud, lower_identity(Get(account, "Email", EmptyStr)))
  \/ Get(account, "Status", None) = "ACTIVE"

\* the filter of list_accounts
KeepAccount(account) ==
  \/ StrIn(govcloud, lower(Get(account, "Name", EmptyStr)))
  \/ StrIn(govcloud, lower(Get(account, "Email", EmptyStr)))
  \/ Get(account, "Status", None) = "ACTIVE"

\* the dict list_accounts appends
ToAccount(account) ==
  Account(account["Id"], Get(account, "Name", EmptyStr),
          Get(account, "Email", EmptyStr), Get(account, "Status", "UNKNOWN"))

\* what one page adds to the local list
KeptOf(page) ==
  LET kept == SelectSeq(page, KeepAccount)
  IN  [k \in 1..Len(kept) |-> ToAccount(kept[k])]

ListAccountsDryRun ==
  /\ pc = "list_accounts"
  /\ dry_run
  /\ accounts' = mock_accounts
  /\ pc' = "listed"
  /\ UNCHANGED <<dry_run, session, acc, orgPageNo, listed, i,
                 assumed_session, region, fetched, fsx_systems, results,
                 csvfile, preview, exit_status, faults, calls, queried,
                 observed, regionErrors, assumeFailed, authFailed, listFailed,
                 notices>>

\* the paginator yields one more page; after the last one the list is returned
ListAccountsPage ==
  /\ pc = "list_accounts"
  /\ ~dry_run
  /\ orgPageNo < MaxOrgPages
  /\ \E k \in 0..Min(MaxOrgPageSize, MaxListed - Len(listed)) :
     \E page \in PagesOf(OrgAccounts \ {listed[j] : j \in 1..Len(listed)}, k) :
     \E last \in BOOLEAN :
       /\ (orgPageNo + 1 = MaxOrgPages) => last
       /\ calls' = calls \cup {"organizations:ListAccounts"}
       /\ listed' = listed \o page
       /\ acc' = acc \o KeptOf(page)
       /\ orgPageNo' = orgPageNo + 1
       /\ IF last
            THEN accounts' = acc' /\ pc' = "listed"
            ELSE UNCHANGED <<accounts, pc>>
  /\ UNCHANGED <<dry_run, session, i, assumed_session, region, fetched,
                 fsx_systems, results, csvfile, preview, exit_status, faults,
                 queried, observed, regionErrors, assumeFailed, authFailed,
                 listFailed,
                 notices>>

\* the handler returns what was collected before the error
ListAccountsError_partial ==
  /\ pc = "list_accounts"
  /\ ~dry_run
  /\ orgPageNo < MaxOrgPages
  /\ faults < MaxFaults
  /\ \E code \in OrgErrorCodes :
       /\ calls' = calls \cup {"organizations:ListAccounts"}
       /\ faults' = faults + 1
       /\ listFailed' = TRUE
       /\ accounts' = acc
       /\ pc' = "listed"
  /\ UNCHANGED <<dry_run, session, acc, orgPageNo, listed, i,
                 assumed_session, region, fetched, fsx_systems, results,
                 csvfile, preview, exit_status, queried, observed,
                 regionErrors, assumeFailed, authFailed,
                 notices>>

\* fetching a page raises ClientError: list_accounts returns []
ListAccountsError ==
  /\ pc = "list_accounts"
  /\ ~dry_run
  /\ orgPageNo < MaxOrgPages
  /\ faults < MaxFaults
  /\ \E code \in OrgErrorCodes :
       /\ calls' = calls \cup {"organizations:ListAccounts"}
       /\ faults' = faults + 1
       /\ listFailed' = TRUE
       /\ accounts' = <<>>
       /\ pc' = "listed"
  /\ UNCHANGED <<dry_run, session, acc, orgPageNo, listed, i,
                 assumed_session, region, fetched, fsx_systems, results,
                 csvfile, preview, exit_status, queried, observed,
                 regionErrors, assumeFailed, authFailed,
                 notices>>

\* run() goes on to scan whatever list_accounts returned
RunNoAccounts_ignored ==
  /\ pc = "listed"
  /\ accounts = <<>>
  /\ i' = 1
  /\ pc' = "scan"
  /\ UNCHANGED <<dry_run, session, accounts, acc, orgPageNo, listed,
                 assumed_session, region, fetched, fsx_systems, results,
                 csvfile, preview, exit_status, faults, calls, queried, observed,
                 regionErrors, assumeFailed, authFailed, listFailed,
                 notices>>

\* run(): `if not accounts: sys.exit(1)`
RunNoAccounts ==
  /\ pc = "listed"
  /\ accounts = <<>>
  /\ exit_status' = 1
  /\ pc' = "done"
  /\ UNCHANGED <<dry_run, session, accounts, acc, orgPageNo, listed, i,
                 assumed_session, region, fetched, fsx_systems, results,
                 csvfile, preview, faults, calls, queried, observed,
                 regionErrors, assumeFailed, authFailed, listFailed,
                 notices>>

\* run(): accounts were found; scan_accounts starts its loop
RunScan ==
  /\ pc = "listed"
  /\ accounts # <<>>
  /\ results' = <<>>
  /\ i' = 1
  /\ pc' = "scan"
  /\ UNCHANGED <<dry_run, session, accounts, acc, orgPageNo, listed,
                 assumed_session, region, fetched, fsx_systems,
                 csvfile, preview, exit_status, faults, calls, queried,
                 observed, regionErrors, assumeFailed, authFailed, listFailed,
                 notices>>

\* ---------------------------------------------------------- scan_accounts
\* assume_role succeeds: a session scoped to the target account
AssumedSession(account_id) == [kind |-> "assumed", account |-> account_id]

\* scan_accounts, dry-run: assume_role returns 'mock_session'
AssumeRoleDryRun ==
  /\ pc = "scan"
  /\ i <= Len(accounts)
  /\ dry_run
  /\ assumed_session' = MockSession
  /\ fsx_systems' = <<>>
  /\ pc' = "fsx"
  /\ UNCHANGED <<dry_run, session, accounts, acc, orgPageNo, listed, i,
                 region, fetched, results, csvfile, preview, exit_status,
                 faults, calls, queried, observed, regionErrors,
                 assumeFailed, authFailed, listFailed,
                 notices>>

\* scan_accounts: assume_role returns a session for the account
AssumeRoleOk ==
  /\ pc = "scan"
  /\ i <= Len(accounts)
  /\ ~dry_run
  /\ calls' = calls \cup {"sts:AssumeRole"}
  /\ assumed_session' = AssumedSession(accounts[i].id)
  /\ fsx_systems' = <<>>
  /\ region' = 1
  /\ fetched' = 0
  /\ pc' = "fsx"
  /\ UNCHANGED <<dry_run, session, accounts, acc, orgPageNo, listed, i,
                 results, csvfile, preview, exit_status, faults, queried,
                 observed, regionErrors, assumeFailed, authFailed,
                 listFailed,
                 notices>>

\* assume_role returns None and the account is skipped
AssumeRoleFail_skip ==
  /\ pc = "scan"
  /\ i <= Len(accounts)
  /\ ~dry_run
  /\ faults < MaxFaults
  /\ \E code \in StsErrorCodes :
       /\ calls' = calls \cup {"sts:AssumeRole"}
       /\ faults' = faults + 1
       /\ assumeFailed' = assumeFailed \cup {i}
       /\ i' = i + 1
  /\ UNCHANGED <<dry_run, pc, session, accounts, acc, orgPageNo, listed,
                 assumed_session, region, fetched, fsx_systems, results,
                 csvfile, preview, exit_status, queried, observed,
                 regionErrors, authFailed, listFailed,
                 notices>>

\* scan_accounts: assume_role catches ClientError and returns None; the
\* caller's own session is used instead
AssumeRoleFail ==
  /\ pc = "scan"
  /\ i <= Len(accounts)
  /\ ~dry_run
  /\ faults < MaxFaults
  /\ \E code \in StsErrorCodes :
       /\ calls' = calls \cup {"sts:AssumeRole"}
       /\ faults' = faults + 1
       /\ assumeFailed' = assumeFailed \cup {i}
       /\ assumed_session' = session
       /\ fsx_systems' = <<>>
       /\ region' = 1
       /\ fetched' = 0
       /\ pc' = "fsx"
  /\ UNCHANGED <<dry_run, session, accounts, acc, orgPageNo, listed, i,
                 results, csvfile, preview, exit_status, queried, observed,
                 regionErrors, authFailed, listFailed,
                 notices>>

\* ------------------------------------------------------- list_fsx_systems
\* the dict list_fsx_systems appends
ToFsx(fs, region_name) ==
  FsxSystem(fs["FileSystemId"], fs["FileSystemType"], region_name,
            Get(fs, "CreationTime", ""), Get(fs, "Lifecycle", ""))

\* where list_fsx_systems stands once region number r is finished
AfterRegion(r) == IF r + 1 > Len(govcloud_regions) THEN "collect" ELSE "fsx"

ListFsxDryRun ==
  /\ pc = "fsx"
  /\ dry_run
  /\ fsx_systems' = mock_fsx
  /\ pc' = "collect"
  /\ UNCHANGED <<dry_run, session, accounts, acc, orgPageNo, listed, i,
                 assumed_session, region, fetched, results, csvfile, preview,
                 exit_status, faults, calls, queried, observed, regionErrors,
                 assumeFailed, authFailed, listFailed,
                 notices>>

\* the region's paginator yields one more page
FsxPage ==
  /\ pc = "fsx"
  /\ ~dry_run
  /\ region <= Len(govcloud_regions)
  /\ LET owner == assumed_session.account
         total == FsCount(owner, region)
         n     == Min(FsxPageSize, total - fetched)
         page  == [k \in 1..n |-> FileSystem(owner, region, fetched + k)]
     IN  /\ calls' = calls \cup {"fsx:DescribeFileSystems"}
         /\ queried' = queried \cup {<<i, region, assumed_session>>}
         /\ observed' = observed \cup {<<i, region, page[k]>> : k \in 1..n}
         /\ fsx_systems' = fsx_systems \o
              [k \in 1..n |-> ToFsx(page[k], govcloud_regions[region])]
         /\ IF fetched + n < total
              THEN fetched' = fetched + n /\ UNCHANGED <<region, pc>>
              ELSE /\ fetched' = 0
                   /\ region' = region + 1
                   /\ pc' = AfterRegion(region)
  /\ UNCHANGED <<dry_run, session, accounts, acc, orgPageNo, listed, i,
                 assumed_session, results, csvfile, preview, exit_status,
                 faults, regionErrors, assumeFailed, authFailed, listFailed,
                 notices>>

\* a ClientError ends the loop over the regions
FsxError_break ==
  /\ pc = "fsx"
  /\ ~dry_run
  /\ region <= Len(govcloud_regions)
  /\ faults < MaxFaults
  /\ \E code \in FsxErrorCodes :
       /\ calls' = calls \cup {"fsx:DescribeFileSystems"}
       /\ queried' = queried \cup {<<i, region, assumed_session>>}
       /\ faults' = faults + 1
       /\ regionErrors' = regionErrors \cup
            {<<i, region, code,
               code \notin {"AccessDenied", "UnauthorizedOperation"}>>}
       /\ fetched' = 0
       /\ pc' = "collect"
  /\ UNCHANGED <<dry_run, session, accounts, acc, orgPageNo, listed, i,
                 assumed_session, region, fsx_systems, results, csvfile,
                 preview, exit_status, observed, assumeFailed, authFailed,
                 listFailed,
                 notices>>

\* fetching a page raises ClientError: `continue` with the next region
FsxError ==
  /\ pc = "fsx"
  /\ ~dry_run
  /\ region <= Len(govcloud_regions)
  /\ faults < MaxFaults
  /\ \E code \in FsxErrorCodes :
       /\ calls' = calls \cup {"fsx:DescribeFileSystems"}
       /\ queried' = queried \cup {<<i, region, assumed_session>>}
       /\ faults' = faults + 1
       /\ regionErrors' = regionErrors \cup
            {<<i, region, code,
               code \notin {"AccessDenied", "UnauthorizedOperation"}>>}
       /\ fetched' = 0
       /\ region' = region + 1
       /\ pc' = AfterRegion(region)
  /\ UNCHANGED <<dry_run, session, accounts, acc, orgPageNo, listed, i,
                 assumed_session, fsx_systems, results, csvfile, preview,
                 exit_status, observed, assumeFailed, authFailed, listFailed,
                 notices>>

\* the dict scan_accounts appends to results
ToRow(account, fsx) ==
  ("Organization Name" :> account.name) @@
  ("GovCloud Account ID" :> account.id) @@
  ("FSX ID" :> fsx.filesystem_id) @@
  ("FSX Type" :> fsx.filesystem_type) @@
  ("Region" :> fsx.region) @@
  ("Lifecycle" :> fsx.lifecycle)

\* every account's rows are appended twice
Collect_twice ==
  /\ pc = "collect"
  /\ results' = results \o
       [k \in 1..Len(fsx_systems) |-> ToRow(accounts[i], fsx_systems[k])] \o
       [k \in 1..Len(fsx_systems) |-> ToRow(accounts[i], fsx_systems[k])]
  /\ i' = i + 1
  /\ pc' = "scan"
  /\ UNCHANGED <<dry_run, session, accounts, acc, orgPageNo, listed,
                 assumed_session, region, fetched, fsx_systems, csvfile,
                 preview, exit_status, faults, calls, queried, observed,
                 regionErrors, assumeFailed, authFailed, listFailed,
                 notices>>

\* scan_accounts: list_fsx_systems has returned; one row per file system
Collect ==
  /\ pc = "collect"
  /\ results' = results \o
       [k \in 1..Len(fsx_systems) |-> ToRow(accounts[i], fsx_systems[k])]
  /\ i' = i + 1
  /\ pc' = "scan"
  /\ UNCHANGED <<dry_run, session, accounts, acc, orgPageNo, listed,
                 assumed_session, region, fetched, fsx_systems, csvfile,
                 preview, exit_status, faults, calls, queried, observed,
                 regionErrors, assumeFailed, authFailed, listFailed,
                 notices>>

\* scan_accounts returns results
ScanDone ==
  /\ pc = "scan"
  /\ i > Len(accounts)
  /\ pc' = "export"
  /\ UNCHANGED <<dry_run, session, accounts, acc, orgPageNo, listed, i,
                 assumed_session, region, fetched, fsx_systems, results,
                 csvfile, preview, exit_status, faults, calls, queried,
                 observed, regionErrors, assumeFailed, authFailed,
                 listFailed,
                 notices>>

\* ----------------------------------------------------------- export_to_csv
\* the line csv.DictWriter writes for one dict
CsvLine(names, row) == [c \in 1..Len(names) |-> row[names[c]]]

\* dry-run: a file is written as well
ExportDryRun_writes ==
  /\ pc = "export"
  /\ dry_run
  /\ preview' = Append(preview,
                [count |-> Len(results),
                  sample |-> [k \in 1..Min(3, Len(results)) |->
                     <<results[k]["Organization Name"],
                       results[k]["GovCloud Account ID"],
                       results[k]["FSX ID"]>>]])
  /\ csvfile' = csvfile \cup
       {[header |-> fieldnames,
         rows |-> [k \in 1..Len(results) |-> CsvLine(fieldnames, results[k])]]}
  /\ exit_status' = 0
  /\ pc' = "done"
  /\ UNCHANGED <<dry_run, session, accounts, acc, orgPageNo, listed, i,
                 assumed_session, region, fetched, fsx_systems, results,
                 faults, calls, queried, observed, regionErrors,
                 assumeFailed, authFailed, listFailed,
                 notices>>

\* dry-run: the row count and the first three rows are printed
ExportDryRun ==
  /\ pc = "export"
  /\ dry_run
  /\ preview' = Append(preview,
                [count |-> Len(results),
                  sample |-> [k \in 1..Min(3, Len(results)) |->
                     <<results[k]["Organization Name"],
                       results[k]["GovCloud Account ID"],
                       results[k]["FSX ID"]>>]])
  /\ exit_status' = 0
  /\ pc' = "done"
  /\ UNCHANGED <<dry_run, session, accounts, acc, orgPageNo, listed, i,
                 assumed_session, region, fetched, fsx_systems, results,
                 csvfile, faults, calls, queried, observed, regionErrors,
                 assumeFailed, authFailed, listFailed,
                 notices>>

\* results is not empty: header and rows are written
ExportWrite ==
  /\ pc = "export"
  /\ ~dry_run
  /\ results # <<>>
  /\ csvfile' = csvfile \cup
       {[header |-> fieldnames,
         rows |-> [k \in 1..Len(results) |-> CsvLine(fieldnames, results[k])]]}
  /\ exit_status' = 0
  /\ pc' = "done"
  /\ UNCHANGED <<dry_run, session, accounts, acc, orgPageNo, listed, i,
                 assumed_session, region, fetched, fsx_systems, results,
                 preview, faults, calls, queried, observed, regionErrors,
                 assumeFailed, authFailed, listFailed,
                 notices>>

\* results is empty: nothing is opened, a notice is printed
ExportEmpty ==
  /\ pc = "export"
  /\ ~dry_run
  /\ results = <<>>
  /\ notices' = notices \cup {"No FSX file systems found in any account"}
  /\ exit_status' = 0
  /\ pc' = "done"
  /\ UNCHANGED <<dry_run, session, accounts, acc, orgPageNo, listed, i,
                 assumed_session, region, fetched, fsx_systems, results,
                 csvfile, preview, faults, calls, queried, observed,
                 regionErrors, assumeFailed, authFailed, listFailed>>

\* ---------------------------------------------------------------- run()
Next ==
  \/ ConnectDryRun
  \/ ConnectOk
  \/ ConnectFail
  \/ ListAccountsDryRun
  \/ ListAccountsPage
  \/ ListAccountsError
  \/ RunNoAccounts
  \/ RunScan
  \/ AssumeRoleDryRun
  \/ AssumeRoleOk
  \/ AssumeRoleFail
  \/ ListFsxDryRun
  \/ FsxPage
  \/ FsxError
  \/ Collect
  \/ ScanDone
  \/ ExportDryRun
  \/ ExportWrite
  \/ ExportEmpty

Spec == Init /\ [][Next]_vars

\* ================================================================= claims
\* 'govcloud' in upper case, for stating the case-insensitive match
GOVCLOUD == <<"G","O","V","C","L","O","U","D">>

\* s contains the marker, each letter in either case
HasMarker(s) ==
  \E off \in 0..(Len(s) - Len(govcloud)) :
     \A k \in 1..Len(govcloud) : s[off + k] \in {govcloud[k], GOVCLOUD[k]}

\* a listed account is active or carries the marker in its name or email
Relevant(raw) ==
  \/ ("Status" \in DOMAIN raw /\ raw["Status"] = "ACTIVE")
  \/ ("Name" \in DOMAIN raw /\ HasMarker(raw["Name"]))
  \/ ("Email" \in DOMAIN raw /\ HasMarker(raw["Email"]))

\* row is the inventory row of the account and of the file system entry fs
\* that the storage service returned in region number r
RowIs(row, account, r, fs) ==
  /\ row["Organization Name"] = account.name
  /\ row["GovCloud Account ID"] = account.id
  /\ row["FSX ID"] = fs["FileSystemId"]
  /\ row["FSX Type"] = fs["FileSystemType"]
  /\ row["Region"] = govcloud_regions[r]
  /\ row["Lifecycle"] = (IF "Lifecycle" \in DOMAIN fs THEN fs["Lifecycle"] ELSE "")

\* scan_accounts has returned
Scanned == pc \in {"export", "done"} /\ exit_status # 1

RegionsOf(a) == {q[2] : q \in {x \in queried : x[1] = a}}
AllRegions == 1..Len(govcloud_regions)

\* C1: in a non-simulation run, a storage query that raises in some region
\* of some account does not abort the scan: the run never exits non-zero
\* because of it, every region of every account is queried, and every
\* record any query returned is a row of the final result sequence.
C1_RegionErrorDoesNotAbort ==
  (~dry_run /\ regionErrors # {}) =>
     /\ exit_status # 1
     /\ pc = "done" =>
          /\ \A a \in 1..Len(accounts) : RegionsOf(a) = AllRegions
          /\ \A o \in observed : \E k \in 1..Len(results) :
               RowIs(results[k], accounts[o[1]], o[2], o[3])

\* C1 witness: the first region of an account failed with AccessDenied, the
\* second returned 2 records, and the run ended with those 2 rows.
C1_Witness ==
  /\ pc = "done"
  /\ \E e \in regionErrors :
       /\ e[2] = 1 /\ e[3] = "AccessDenied"
       /\ Cardinality({o \in observed : o[1] = e[1] /\ o[2] = 2}) = 2
       /\ Cardinality({k \in 1..Len(results) :
             /\ results[k]["GovCloud Account ID"] = accounts[e[1]].id
             /\ results[k]["Region"] = govcloud_regions[2]}) = 2

\* C2: once connect() has failed, the run is over with exit status 1 and
\* nothing but the identity check was ever called: no account listing, no
\* role assumption, no storage query, no file.
C2_AuthFailureExitsAtOnce ==
  authFailed =>
     /\ pc = "done"
     /\ exit_status = 1
     /\ calls \subseteq {"sts:GetCallerIdentity"}
     /\ queried = {}
     /\ csvfile = {}

C2_Witness == authFailed /\ pc = "done" /\ "sts:GetCallerIdentity" \in calls

\* C3: a finished run has exit status 1 exactly if authentication failed or
\* the Lister returned no account, and then nothing was scanned or exported;
\* otherwise every account was scanned, the Reporter ran (preview, file or
\* the no-file-systems notice) and the exit status is 0, also with no rows.
C3_ExitStatus ==
  pc = "done" =>
     /\ exit_status \in {0, 1}
     /\ (exit_status = 1) <=> (authFailed \/ accounts = <<>>)
     /\ exit_status = 1 =>
          /\ i = 0 /\ queried = {} /\ "sts:AssumeRole" \notin calls
          /\ results = <<>> /\ csvfile = {} /\ preview = <<>> /\ notices = {}
     /\ exit_status = 0 =>
          /\ i = Len(accounts) + 1
          /\ dry_run => Len(preview) = 1
          /\ (~dry_run /\ results # <<>>) => Cardinality(csvfile) = 1
          /\ (~dry_run /\ results = <<>>) => notices # {}

\* C3 witness: a real run that found accounts but no file system ends 0.
C3_Witness ==
  /\ pc = "done" /\ ~dry_run /\ exit_status = 0
  /\ accounts # <<>> /\ results = <<>>

\* the header the documentation names
SixColumns ==
  <<"Organization Name", "GovCloud Account ID", "FSX ID",
    "FSX Type", "Region", "Lifecycle">>

\* C4 as stated: whenever a non-simulation run has gone through the
\* Reporter, a CSV with the six-column header exists, also with zero rows.
C4_HeaderAlwaysExported ==
  (~dry_run /\ pc = "done" /\ exit_status = 0) =>
     /\ csvfile # {}
     /\ \A f \in csvfile : f.header = SixColumns

\* C4 amended: with at least one row the Reporter writes one file whose
\* header is the six columns in order and whose lines are the rows in
\* column order; with zero rows it writes no file at all.
C4_HeaderWhenRows ==
  (~dry_run /\ pc = "done" /\ exit_status = 0) =>
     IF results # <<>>
       THEN /\ Cardinality(csvfile) = 1
            /\ \A f \in csvfile :
                 /\ f.header = SixColumns
                 /\ Len(f.rows) = Len(results)
                 /\ \A k \in 1..Len(f.rows) :
                      f.rows[k] = [c \in 1..6 |-> results[k][SixColumns[c]]]
       ELSE csvfile = {}

C4_Witness ==
  /\ ~dry_run /\ pc = "done"
  /\ \E f \in csvfile : Len(f.rows) >= 2

\* every row stems from an observed pair, and every observed pair has a row
RowsAreObserved ==
  /\ \A k \in 1..Len(results) : \E o \in observed :
       RowIs(results[k], accounts[o[1]], o[2], o[3])
  /\ \A o \in observed : \E k \in 1..Len(results) :
       RowIs(results[k], accounts[o[1]], o[2], o[3])

\* C5 as stated: the rows handed to the Reporter are exactly the observed
\* (account, file system) pairs, no pair twice, and no file system in more
\* than one row.
C5_NoFileSystemTwice ==
  (~dry_run /\ Scanned) =>
     /\ RowsAreObserved
     /\ Len(results) = Cardinality(observed)
     /\ \A j, k \in 1..Len(results) :
          j # k => results[j]["FSX ID"] # results[k]["FSX ID"]

\* C5 amended: the rows handed to the Reporter are exactly the observed
\* (account, file system) pairs, one row per pair and no pair twice.
C5_OneRowPerPair ==
  (~dry_run /\ Scanned) =>
     /\ RowsAreObserved
     /\ Len(results) = Cardinality(observed)
     /\ \A j, k \in 1..Len(results) :
          j # k =>
            \/ results[j]["GovCloud Account ID"] # results[k]["GovCloud Account ID"]
            \/ results[j]["FSX ID"] # results[k]["FSX ID"]

\* C5 witness: a role assumption failed, a region failed, and rows exist.
C5_Witness ==
  /\ ~dry_run /\ pc = "done"
  /\ assumeFailed # {} /\ regionErrors # {}
  /\ Len(results) >= 2

\* C6: a simulation run calls no API and writes no file at any stage; it
\* ends with exit status 0, the 6 fixture rows (3 mock accounts in order,
\* each with the 2 mock file systems), and one preview: the row count and
\* the first three rows.
C6_DryRunFixtures ==
  dry_run =>
     /\ calls = {} /\ queried = {} /\ observed = {}
     /\ csvfile = {}
     /\ session = NoSession
     /\ pc = "done" =>
          /\ exit_status = 0
          /\ Len(accounts) = 3
          /\ Len(results) = 6
          /\ \A k \in 1..6 :
               LET a == mock_accounts[(k + 1) \div 2]
                   f == mock_fsx[((k - 1) % 2) + 1]
               IN  /\ results[k]["Organization Name"] = a.name
                   /\ results[k]["GovCloud Account ID"] = a.id
                   /\ results[k]["FSX ID"] = f.filesystem_id
                   /\ results[k]["FSX Type"] = f.filesystem_type
                   /\ results[k]["Region"] = f.region
                   /\ results[k]["Lifecycle"] = f.lifecycle
          /\ Len(preview) = 1
          /\ preview[1].count = 6
          /\ Len(preview[1].sample) = 3
          /\ \A k \in 1..3 :
               preview[1].sample[k] =
                 <<results[k]["Organization Name"],
                   results[k]["GovCloud Account ID"], results[k]["FSX ID"]>>

C6_Witness == dry_run /\ pc = "done" /\ Len(preview) = 1 /\ Len(results) = 6

\* C7: in a non-simulation run an account whose role assumption failed is
\* scanned with the caller's own session in both regions, every record
\* found becomes a row under that account's id and name, and the scan goes
\* on to the end of the account list.
C7_FallbackToCallerSession ==
  ~dry_run =>
    \A a \in assumeFailed :
       /\ (i = a /\ pc \in {"fsx", "collect"}) => assumed_session = session
       /\ \A q \in queried : q[1] = a => q[3] = OwnSession
       /\ i > a =>
            /\ RegionsOf(a) = AllRegions
            /\ \A o \in observed : o[1] = a =>
                 \E k \in 1..Len(results) :
                    RowIs(results[k], accounts[a], o[2], o[3])
       /\ i >= a
       /\ pc = "done" => (exit_status = 0 /\ i = Len(accounts) + 1)

\* C7 witness: the first of two accounts fell back, both produced rows.
C7_Witness ==
  /\ pc = "done" /\ 1 \in assumeFailed /\ Len(accounts) = 2
  /\ \E o \in observed : o[1] = 1
  /\ \E o \in observed : o[1] = 2

\* C8: every account the Lister returns in a non-simulation run is ACTIVE
\* or carries the marker (any case) in its name or email; and when the
\* listing went through, the returned accounts are exactly the listed
\* accounts with that property, in the order the pages gave them.
C8_ListerFilter ==
  ~dry_run =>
     /\ \A k \in 1..Len(accounts) :
          \/ accounts[k].status = "ACTIVE"
          \/ HasMarker(accounts[k].name)
          \/ HasMarker(accounts[k].email)
     /\ (pc \notin {"connect", "list_accounts"} /\ ~authFailed /\ ~listFailed) =>
          LET want == SelectSeq(listed, Relevant)
          IN  /\ Len(accounts) = Len(want)
              /\ \A k \in 1..Len(want) :
                   /\ accounts[k].id = want[k]["Id"]
                   /\ "Name" \in DOMAIN want[k] => accounts[k].name = want[k]["Name"]
                   /\ "Email" \in DOMAIN want[k] => accounts[k].email = want[k]["Email"]

\* C8 witness: two pages; a suspended account with an upper-case marker in
\* its email was kept, another account was dropped.
C8_Witness ==
  /\ ~dry_run /\ pc = "listed" /\ ~listFailed
  /\ orgPageNo = 2 /\ Len(listed) = 2
  /\ Len(accounts) = 1 /\ accounts[1].id = "222"

\* C9: when a page of the organization listing raises a client error, the
\* Lister returns no account, whatever earlier pages held, and the run ends
\* with exit status 1 without assuming a role, querying a region or writing
\* a file.
C9_ListingErrorIsFatal ==
  listFailed =>
     /\ accounts = <<>>
     /\ pc \in {"listed", "done"}
     /\ pc = "done" => exit_status = 1
     /\ exit_status # 0
     /\ calls \subseteq {"sts:GetCallerIdentity", "organizations:ListAccounts"}
     /\ queried = {} /\ results = <<>> /\ csvfile = {}

\* C9 witness: the error came after a page whose accounts had been kept.
C9_Witness ==
  /\ listFailed /\ pc = "done" /\ exit_status = 1
  /\ orgPageNo >= 1 /\ acc # <<>>

\* C10 as stated: a region whose query raised contributes no record to the
\* account's result, on whichever page the error came.
C10_FailedRegionContributesNothing ==
  (~dry_run /\ Scanned) =>
     \A e \in regionErrors :
        \A k \in 1..Len(results) :
           ~ /\ results[k]["GovCloud Account ID"] = accounts[e[1]].id
             /\ results[k]["Region"] = govcloud_regions[e[2]]

====
